---------------------------- MODULE Spec2Model ----------------------------
(***************************************************************************)
(* A model of wikr (src/wikr.go): the cache file with its 24 hour          *)
(* freshness rule, the search / choose / fetch pipeline of main, and the   *)
(* loading animation goroutine that getWikipediaSummary starts and joins.  *)
(*                                                                         *)
(* Go strings are byte strings.  A string is modelled as a run-length      *)
(* sequence of items [c, n]: n repetitions of the character c.  Every      *)
(* character is one byte wide except "ae" (a two byte UTF-8 rune such as   *)
(* U+00E4), "fffd" (the three byte replacement rune U+FFFD) and "bad" (one *)
(* byte that is not valid UTF-8, e.g. the first byte of a rune whose       *)
(* second byte was cut off).  Time is counted in hours.                    *)
(***************************************************************************)
EXTENDS Integers, Sequences, FiniteSets, TLC

VARIABLES
    disk,        \* the cache file: [kind, obj]
    now,         \* the wall clock, in hours
    call,        \* SpecCache: the last cache function called and what it returned
    stored,      \* SpecCache: arguments and time of the last setCachedEntry not overwritten since
    saved,       \* SpecCache: the table handed to the saveCache that ran last, if no store followed
    pc,          \* main's position
    lang,        \* *lang
    maxResults,  \* *maxResults
    searchResults, \* main's searchResults
    results,     \* the results slice of chooseResult
    input,       \* the line chooseResult read last
    selected,    \* selectedTitle
    path,        \* the branch taken: "none", "no-results", "hit", "miss", "ok", an error, ...
    ret,         \* what getWikipediaSummary returns: [summary, url, cached]
    extract,     \* result["extract"] of the summary response decoded last
    anim,        \* the animation goroutine's position
    animIdx,     \* i of showLoadingAnimation
    doneClosed,  \* whether the channel done is closed
    wg,          \* the WaitGroup counter
    out,         \* what was printed, in order
    exitCode,    \* the process's exit code, -1 while it runs
    fresh,       \* per key, the result of the last fetch that returned cached = false
    httpCalls,   \* summary requests made by the running invocation
    ops,         \* what the running invocation has done so far, counted
    inv          \* SpecTwo: two invocations inside setCachedEntry

cacheVars == <<disk, now, call, stored, saved, inv>>
mainVars == <<pc, lang, maxResults, searchResults, results, input, selected, path, ret, extract,
              anim, animIdx, doneClosed, wg, out, exitCode, fresh, httpCalls, ops>>
vars == <<disk, now, call, stored, saved, inv, pc, lang, maxResults, searchResults,
          results, input,
          selected, path, ret, extract, anim, animIdx, doneClosed, wg, out,
          exitCode, fresh, httpCalls, ops>>

---------------------------------------------------------------------------
(* Bounds of the model. *)

\* the clock stops advancing here
MaxTime == 36

---------------------------------------------------------------------------
(* Strings. *)

Width(c) == CASE c = "ae" -> 2 [] c = "fffd" -> 3 [] OTHER -> 1

Rep(c, n) == IF n = 0 THEN <<>> ELSE <<[c |-> c, n |-> n]>>

\* s + t, keeping the run-length form canonical
Concat(s, t) ==
    IF s = <<>> THEN t
    ELSE IF t = <<>> THEN s
    ELSE IF s[Len(s)].c = t[1].c
    THEN SubSeq(s, 1, Len(s) - 1)
         \o <<[c |-> t[1].c, n |-> s[Len(s)].n + t[1].n]>>
         \o Tail(t)
    ELSE s \o t

\* len(s): the number of bytes
RECURSIVE ByteLen(_)
ByteLen(s) == IF s = <<>> THEN 0 ELSE s[1].n * Width(s[1].c) + ByteLen(Tail(s))

\* the number of characters (runes) of s
RECURSIVE RuneLen(_)
RuneLen(s) == IF s = <<>> THEN 0 ELSE s[1].n + RuneLen(Tail(s))

\* the first k characters of s
RECURSIVE RunePrefix(_, _)
RunePrefix(s, k) ==
    IF s = <<>> \/ k <= 0 THEN <<>>
    ELSE IF s[1].n <= k
    THEN Concat(<<s[1]>>, RunePrefix(Tail(s), k - s[1].n))
    ELSE Rep(s[1].c, k)

\* s[:k], a slice of bytes: a rune the cut falls into leaves its first bytes
\* behind, none of which is valid UTF-8 on its own
RECURSIVE BytePrefix(_, _)
BytePrefix(s, k) ==
    IF s = <<>> \/ k <= 0 THEN <<>>
    ELSE LET w == Width(s[1].c)
         IN  IF s[1].n * w <= k
             THEN Concat(<<s[1]>>, BytePrefix(Tail(s), k - s[1].n * w))
             ELSE Concat(Rep(s[1].c, k \div w), Rep("bad", k % w))

\* encoding/json writes a string "coerced to valid UTF-8": every byte that
\* is not part of a valid rune becomes U+FFFD
RECURSIVE Coerce(_)
Coerce(s) ==
    IF s = <<>> THEN <<>>
    ELSE Concat(Rep(IF s[1].c = "bad" THEN "fffd" ELSE s[1].c, s[1].n),
                Coerce(Tail(s)))

Str(c) == Rep(c, 1)
Colon == Str(":")
Ellipsis == Rep(".", 3)
Empty == <<>>

---------------------------------------------------------------------------
(* The cache: CacheEntry, Cache, loadCache, saveCache, getCachedEntry,     *)
(* setCachedEntry.                                                         *)

\* cacheDuration = 24 * time.Hour
cacheDuration == 24

\* len(summary) > 1000
SummaryMax == 1000

\* summary[:997]
SummaryKeep == 997

CacheEntry(summary, url, timestamp) ==
    [summary |-> summary, url |-> url, timestamp |-> timestamp]

\* make(Cache)
EmptyCache == [k \in {} |-> CacheEntry(Empty, Empty, 0)]

\* The cache file is absent ("nofile"), holds a JSON object ("json", obj
\* maps its keys to its entries) or holds bytes that are no JSON ("garbage").
\* Three more kinds exist only where a specification starts from them: a
\* file that can be neither read nor written ("unreadable"), a JSON object
\* in a file that cannot be written ("readonly"), and a JSON object some of
\* whose values have another type than CacheEntry's fields ("mistyped", obj
\* is what json.Unmarshal stores before it returns its UnmarshalTypeError:
\* it skips a mistyped field and completes the rest).
File(kind, obj) == [kind |-> kind, obj |-> obj]
NoFile == File("nofile", EmptyCache)
Garbage == File("garbage", EmptyCache)
Unreadable == File("unreadable", EmptyCache)
ReadOnly(obj) == File("readonly", obj)
Mistyped(obj) == File("mistyped", obj)

\* os.ReadFile(cachePath) returns an error
ReadFails(file) == file.kind = "unreadable"

\* json.Unmarshal(data, &cache) returns an error
UnmarshalFails(file) == file.kind \in {"garbage", "mistyped"}

\* os.WriteFile(cachePath, data, 0644) returns an error
WriteFails(file) == file.kind \in {"unreadable", "readonly"}

\* json.Marshal(cache): keys and string fields are written coerced to valid
\* UTF-8; a timestamp is written as RFC 3339 with nanoseconds, which keeps
\* the instant.
Marshal(cache) ==
    LET keys == {Coerce(k) : k \in DOMAIN cache}
        src(j) == CHOOSE k \in DOMAIN cache : Coerce(k) = j
    IN  [j \in keys |->
            CacheEntry(Coerce(cache[src(j)].summary),
                       Coerce(cache[src(j)].url),
                       cache[src(j)].timestamp)]

\* json.Unmarshal(data, &cache) into the empty map: a syntax error leaves it
\* empty
Unmarshal(file) ==
    IF file.kind \in {"json", "readonly", "mistyped"} THEN file.obj ELSE EmptyCache

createEmptyCacheFile_Always(file) == File("json", Marshal(EmptyCache))

createEmptyCacheFileIfNotExists(file) ==
    IF file.kind = "nofile" THEN File("json", Marshal(EmptyCache)) ELSE file

\* the table loadCache returns; the file it leaves behind is
\* createEmptyCacheFileIfNotExists(file)
loadCache(file) ==
    LET f == createEmptyCacheFileIfNotExists(file)
    IN  IF ReadFails(f) THEN EmptyCache ELSE Unmarshal(f)

saveCache_Merging(file, cache) ==
    LET old == Unmarshal(file)
    IN  File("json", Marshal([k \in DOMAIN old \cup DOMAIN cache |->
                                 IF k \in DOMAIN cache THEN cache[k] ELSE old[k]]))

\* the file saveCache(cache) leaves: the error of os.WriteFile is dropped
saveCache(file, cache) ==
    IF WriteFails(file) THEN file ELSE File("json", Marshal(cache))

\* key := lang + ":" + title
CacheKey(l, t) == Concat(Concat(l, Colon), t)

IsFresh_Inclusive(entry, t) == t - entry.timestamp <= cacheDuration

\* time.Since(entry.Timestamp) < cacheDuration
IsFresh(entry, t) == t - entry.timestamp < cacheDuration

Lookup(summary, url, found) == [summary |-> summary, url |-> url, found |-> found]

\* what getCachedEntry(lang, title) returns at time t
getCachedEntry(file, t, l, title) ==
    LET cache == loadCache(file)
        key == CacheKey(l, title)
    IN  IF key \in DOMAIN cache /\ IsFresh(cache[key], t)
        THEN Lookup(cache[key].summary, cache[key].url, TRUE)
        ELSE Lookup(Empty, Empty, FALSE)

\* cache[key] = CacheEntry{...}
WithEntry(cache, key, entry) ==
    [k \in DOMAIN cache \cup {key} |-> IF k = key THEN entry ELSE cache[k]]

\* the file setCachedEntry(lang, title, summary, url) leaves at time t
setCachedEntry(file, t, l, title, summary, url) ==
    saveCache(createEmptyCacheFileIfNotExists(file),
              WithEntry(loadCache(file), CacheKey(l, title),
                        CacheEntry(summary, url, t)))

\* Shorten the summary to a maximum of 1000 characters
Truncate(summary) ==
    IF ByteLen(summary) > SummaryMax
    THEN Concat(BytePrefix(summary, SummaryKeep), Ellipsis)
    ELSE summary

---------------------------------------------------------------------------
(* Inputs. *)

De == Concat(Str("d"), Str("e"))
Langs == {De}
Titles == {Str("B"), Str("T")}
AllTitles == Titles \cup {Str("M")}
Urls == {Str("u"), Str("v")}

\* summaries getWikipediaSummary hands to setCachedEntry: an extract it left
\* as it was and one it cut
Summaries == {Truncate(Rep("a", 5)), Truncate(Rep("ae", 600))}

---------------------------------------------------------------------------
(* The cache functions called one after another, as the tests of the       *)
(* repository call them.                                                   *)

Keys == {CacheKey(l, t) : l \in Langs, t \in Titles}
AllKeys == {CacheKey(l, t) : l \in Langs, t \in AllTitles}

\* the tables a caller may hand to saveCache at time t
TablesAt(t) ==
    UNION { [ks -> {CacheEntry(s, u, t) : s \in Summaries, u \in Urls}]
            : ks \in SUBSET Keys }

NoCall == [op |-> "none"]
Unset == [set |-> FALSE]

\* the two invocations of SpecTwo, neither inside setCachedEntry
Invocations == {1, 2}
NoInv == [p \in Invocations |-> [pc |-> "idle"]]

\* nothing done yet: goroutines started, close(done) and wg.Wait() calls
\* passed, loadCache, saveCache and setCachedEntry calls made; the cache
\* file when main started and when getWikipediaSummary was entered
NoOps(file) ==
    [starts |-> 0, closes |-> 0, waits |-> 0, loads |-> 0, saves |-> 0,
     sets |-> 0, atStart |-> file, atCall |-> file]

\* the variables of main and of the animation, before main has started
MainIdle ==
    /\ pc = "idle"
    /\ lang = Empty
    /\ maxResults = 0
    /\ searchResults = <<>>
    /\ results = <<>>
    /\ input = <<>>
    /\ selected = Empty
    /\ path = "none"
    /\ ret = [summary |-> Empty, url |-> Empty, cached |-> FALSE]
    /\ extract = Empty
    /\ anim = "none"
    /\ animIdx = 0
    /\ doneClosed = FALSE
    /\ wg = 0
    /\ out = <<>>
    /\ exitCode = -1
    /\ fresh = [k \in AllKeys |-> Unset]
    /\ httpCalls = 0
    /\ ops = NoOps(NoFile)
    /\ inv = NoInv

InitCache ==
    /\ disk \in {NoFile, Garbage, saveCache(NoFile, EmptyCache)}
    /\ now = 0
    /\ call = NoCall
    /\ stored = Unset
    /\ saved = Unset
    /\ MainIdle

CallSetCachedEntry(l, t, s, u) ==
    /\ disk' = setCachedEntry(disk, now, l, t, s, u)
    /\ call' = [op |-> "set", lang |-> l, title |-> t, at |-> now]
    /\ stored' = [set |-> TRUE, lang |-> l, title |-> t, summary |-> s,
                  url |-> u, at |-> now]
    /\ saved' = Unset
    /\ UNCHANGED <<now, inv, mainVars>>

CallGetCachedEntry(l, t) ==
    /\ disk' = createEmptyCacheFileIfNotExists(disk)
    /\ call' = [op |-> "get", lang |-> l, title |-> t, at |-> now,
                res |-> getCachedEntry(disk, now, l, t)]
    /\ UNCHANGED <<now, stored, saved, inv, mainVars>>

CallSaveCache(T) ==
    /\ disk' = saveCache(disk, T)
    /\ call' = [op |-> "save", at |-> now]
    /\ stored' = Unset
    /\ saved' = [set |-> TRUE, table |-> T]
    /\ UNCHANGED <<now, inv, mainVars>>

CallLoadCache ==
    /\ disk' = createEmptyCacheFileIfNotExists(disk)
    /\ call' = [op |-> "load", at |-> now, table |-> loadCache(disk)]
    /\ UNCHANGED <<now, stored, saved, inv, mainVars>>

\* time passes
TickHours == cacheDuration \div 2

Tick ==
    /\ now + TickHours <= MaxTime
    /\ now' = now + TickHours
    /\ UNCHANGED <<disk, call, stored, saved, inv, mainVars>>

NextCache ==
    \/ \E l \in Langs, t \in Titles, s \in Summaries, u \in Urls :
          CallSetCachedEntry(l, t, s, u)
    \/ \E l \in Langs, t \in Titles : CallGetCachedEntry(l, t)
    \/ \E T \in TablesAt(now) : CallSaveCache(T)
    \/ CallLoadCache
    \/ Tick

SpecCache == InitCache /\ [][NextCache]_vars

---------------------------------------------------------------------------
(* setCachedEntry and getCachedEntry called with languages and titles that *)
(* differ in case or hold a colon.                                         *)

KeyLangs == {Str("d"), Concat(Str("d"), Concat(Colon, Str("e"))), Str("D")}
KeyTitles == {Str("T"), Concat(Str("e"), Concat(Colon, Str("T"))), Str("t")}

\* the page URL of a title in a language's Wikipedia
PairUrl(l, t) == Concat(l, Concat(Str("/"), t))

NextKeys ==
    \/ \E l \in KeyLangs, t \in KeyTitles :
          CallSetCachedEntry(l, t, Rep("a", 5), PairUrl(l, t))
    \/ \E l \in KeyLangs, t \in KeyTitles : CallGetCachedEntry(l, t)

SpecKeys == InitCache /\ [][NextKeys]_vars

---------------------------------------------------------------------------
(* chooseResult's reading of a line: strings.TrimSpace and                 *)
(* fmt.Sscanf(input, "%d", &index).  A line is a sequence of characters.   *)

IsSpace(c) == c = " "
IsDigit(c) == c \in {"0", "1", "2", "3", "4", "5", "6", "7", "8", "9"}
DigitValue(c) ==
    CASE c = "0" -> 0 [] c = "1" -> 1 [] c = "2" -> 2 [] c = "3" -> 3
      [] c = "4" -> 4 [] c = "5" -> 5 [] c = "6" -> 6 [] c = "7" -> 7
      [] c = "8" -> 8 [] c = "9" -> 9

RECURSIVE TrimLeft(_)
TrimLeft(s) == IF s # <<>> /\ IsSpace(s[1]) THEN TrimLeft(Tail(s)) ELSE s

RECURSIVE TrimRight(_)
TrimRight(s) ==
    IF s # <<>> /\ IsSpace(s[Len(s)]) THEN TrimRight(SubSeq(s, 1, Len(s) - 1)) ELSE s

\* strings.TrimSpace
TrimSpace(s) == TrimRight(TrimLeft(s))

\* scanNumber: the longest prefix of digits and underscores
RECURSIVE ScanNumber(_)
ScanNumber(s) ==
    IF s # <<>> /\ (IsDigit(s[1]) \/ s[1] = "_")
    THEN <<s[1]>> \o ScanNumber(Tail(s))
    ELSE <<>>

\* strconv.ParseInt(tok, 10, 64) of a token of digits
RECURSIVE Decimal(_)
Decimal(tok) ==
    IF tok = <<>> THEN 0
    ELSE 10 * Decimal(SubSeq(tok, 1, Len(tok) - 1)) + DigitValue(tok[Len(tok)])

\* fmt.Sscanf(s, "%d", &index): spaces are skipped, a sign is accepted, then
\* the digits are read and what follows them is left unread; a token that
\* is empty or holds an underscore is an error.  [ok, value]
Sscanf(s) ==
    LET t == TrimLeft(s)
        signed == t # <<>> /\ t[1] \in {"+", "-"}
        tok == ScanNumber(IF signed THEN Tail(t) ELSE t)
        good == tok # <<>> /\ \A i \in 1..Len(tok) : IsDigit(tok[i])
    IN  [ok |-> good,
         value |-> IF ~good THEN 0
                   ELSE IF signed /\ t[1] = "-" THEN 0 - Decimal(tok)
                   ELSE Decimal(tok)]

\* results[:*maxResults] when len(results) > *maxResults
Displayed(list, m) == IF Len(list) > m THEN SubSeq(list, 1, m) ELSE list

\* err == nil && index > 0 && index <= len(results)
ValidIndex(line, shown) ==
    LET r == Sscanf(line) IN r.ok /\ r.value > 0 /\ r.value <= Len(shown)

---------------------------------------------------------------------------
(* main, searchWikipedia, chooseResult, getWikipediaSummary and the        *)
(* goroutine running showLoadingAnimation.                                 *)

\* len(animation)
AnimationGlyphs == 4

\* flag.Int("max", 5, ...)
DefaultMax == 5

\* animation frames one invocation may print
MaxFrames == 2

NoReturn == [summary |-> Empty, url |-> Empty, cached |-> FALSE]

Frames == Len(SelectSeq(out, LAMBDA e : e.kind = "frame"))

Running == pc \notin {"idle", "exited"}

\* a process ends: its goroutines end with it
Exit(code) ==
    /\ pc' = "exited"
    /\ exitCode' = code
    /\ anim' = IF anim \in {"none", "exited"} THEN anim ELSE "killed"

\* main up to the search request: the flags are parsed
Start(l, m) ==
    /\ pc \in {"idle", "exited"}
    /\ pc' = "search"
    /\ lang' = l
    /\ maxResults' = m
    /\ searchResults' = <<>>
    /\ results' = <<>>
    /\ input' = <<>>
    /\ selected' = Empty
    /\ path' = "none"
    /\ ret' = NoReturn
    /\ extract' = Empty
    /\ anim' = "none"
    /\ animIdx' = 0
    /\ doneClosed' = FALSE
    /\ wg' = 0
    /\ out' = <<>>
    /\ exitCode' = -1
    /\ httpCalls' = 0
    /\ ops' = NoOps(disk)
    /\ UNCHANGED <<cacheVars, fresh>>

\* searchWikipedia returns an error (http.Get, io.ReadAll or json.Unmarshal
\* failed): main reports it and exits with 1
SearchFails ==
    /\ pc = "search"
    /\ path' = "search-error"
    /\ Exit(1)
    /\ UNCHANGED <<cacheVars, lang, maxResults, searchResults, results, input,
                   selected, ret, extract, animIdx, doneClosed, wg, out, fresh,
                   httpCalls, ops>>

\* the response decodes but result["query"], its "search" or a "title" is
\* missing or of another type: the type assertion panics, the process ends
\* with exit code 2
SearchMalformed ==
    /\ pc = "search"
    /\ path' = "search-malformed"
    /\ Exit(2)
    /\ UNCHANGED <<cacheVars, lang, maxResults, searchResults, results, input,
                   selected, ret, extract, animIdx, doneClosed, wg, out, fresh,
                   httpCalls, ops>>

NoResults_Never(list) == FALSE

\* len(searchResults) == 0
NoResults(list) == Len(list) = 0

IsSingle_Never(list) == FALSE

\* len(searchResults) == 1
IsSingle(list) == Len(list) = 1

\* searchWikipedia returns titles: none, one or several
SearchOk(titles) ==
    /\ pc = "search"
    /\ searchResults' = titles
    /\ \/ /\ NoResults(titles)
          /\ path' = "no-results"
          /\ out' = Append(out, [kind |-> "no-results"])
          /\ Exit(1)
          /\ UNCHANGED selected
       \/ /\ ~NoResults(titles)
          /\ IsSingle(titles)
          /\ selected' = titles[1]
          /\ pc' = "summary"
          /\ UNCHANGED <<path, exitCode, anim, out>>
       \/ /\ ~NoResults(titles)
          /\ ~IsSingle(titles)
          /\ pc' = "chooseResult"
          /\ UNCHANGED <<path, exitCode, anim, selected, out>>
    /\ UNCHANGED <<cacheVars, lang, maxResults, results, input, ret, extract,
                   animIdx, doneClosed, wg, fresh, httpCalls, ops>>

\* chooseResult up to its loop: the list is cut to *maxResults (a negative
\* cap panics: slice bounds out of range) and printed, numbered from 1
ChooseList ==
    /\ pc = "chooseResult"
    /\ \/ /\ Len(searchResults) > maxResults /\ maxResults < 0
          /\ path' = "slice-panic"
          /\ Exit(2)
          /\ UNCHANGED <<results, out>>
       \/ /\ ~(Len(searchResults) > maxResults /\ maxResults < 0)
          /\ results' = Displayed(searchResults, maxResults)
          /\ out' = out \o [i \in 1..Len(results') |->
                               [kind |-> "item", number |-> i, title |-> results'[i]]]
          /\ pc' = "prompt"
          /\ UNCHANGED <<path, exitCode, anim>>
    /\ UNCHANGED <<cacheVars, lang, maxResults, searchResults, input, selected, ret,
                   extract, animIdx, doneClosed, wg, fresh, httpCalls, ops>>

\* one round of chooseResult's loop
ChooseRead(line) ==
    /\ pc = "prompt"
    /\ input' = TrimSpace(line)
    /\ \/ /\ input' = <<"q">>
          /\ Exit(0)
          /\ UNCHANGED selected
       \/ /\ input' # <<"q">>
          /\ ValidIndex(input', results)
          /\ selected' = results[Sscanf(input').value]
          /\ pc' = "summary"
          /\ UNCHANGED <<exitCode, anim>>
       \/ /\ input' # <<"q">>
          /\ ~ValidIndex(input', results)
          /\ UNCHANGED <<pc, exitCode, anim, selected>>
    /\ UNCHANGED <<cacheVars, lang, maxResults, searchResults, results, path, ret,
                   extract, animIdx, doneClosed, wg, out, fresh, httpCalls, ops>>

\* getWikipediaSummary: make(chan bool), wg.Add(1), go func()
StartAnimation ==
    /\ pc = "summary"
    /\ doneClosed' = FALSE
    /\ wg' = 1
    /\ anim' = "select"
    /\ input' = <<>>
    /\ pc' = "lookup"
    /\ ops' = [ops EXCEPT !.starts = @ + 1, !.atCall = disk]
    /\ UNCHANGED <<cacheVars, lang, maxResults, searchResults, results, selected,
                   path, ret, extract, animIdx, out, exitCode, fresh, httpCalls>>

\* getCachedEntry(lang, title)
CacheLookup ==
    LET r == getCachedEntry(disk, now, lang, selected)
    IN  /\ pc = "lookup"
        /\ disk' = createEmptyCacheFileIfNotExists(disk)
        /\ ops' = [ops EXCEPT !.loads = @ + 1]
        /\ \/ /\ r.found
              /\ ret' = [summary |-> r.summary, url |-> r.url, cached |-> TRUE]
              /\ path' = "hit"
              /\ pc' = "close"
           \/ /\ ~r.found
              /\ path' = "miss"
              /\ pc' = "http"
              /\ UNCHANGED ret
        /\ UNCHANGED <<now, call, stored, saved, inv, lang, maxResults, searchResults,
                       results, input, selected, extract, anim, animIdx, doneClosed,
                       wg, out, exitCode, fresh, httpCalls>>

\* http.Get, io.ReadAll or json.Unmarshal returns an error
FetchFails(kind) ==
    /\ pc = "http"
    /\ httpCalls' = httpCalls + 1
    /\ path' = kind
    /\ ret' = NoReturn
    /\ pc' = "close"
    /\ UNCHANGED <<cacheVars, lang, maxResults, searchResults, results, input,
                   selected, extract, anim, animIdx, doneClosed, wg, out, exitCode,
                   fresh, ops>>

\* the response decodes but has no string "extract" or no
\* content_urls.desktop.page: the type assertion panics; the deferred
\* response.Body.Close() runs while the other goroutine still does
FetchMalformed ==
    /\ pc = "http"
    /\ httpCalls' = httpCalls + 1
    /\ path' = "malformed"
    /\ pc' = "panic"
    /\ UNCHANGED <<cacheVars, lang, maxResults, searchResults, results, input,
                   selected, ret, extract, anim, animIdx, doneClosed, wg, out,
                   exitCode, fresh, ops>>

\* the runtime ends the panicking process with exit code 2
PanicExit ==
    /\ pc = "panic"
    /\ Exit(2)
    /\ UNCHANGED <<cacheVars, lang, maxResults, searchResults, results, input,
                   selected, path, ret, extract, animIdx, doneClosed, wg, out, fresh,
                   httpCalls, ops>>

\* the response holds the extract e and the page URL u
FetchOk(e, u) ==
    /\ pc = "http"
    /\ httpCalls' = httpCalls + 1
    /\ extract' = e
    /\ ret' = [summary |-> Truncate(e), url |-> u, cached |-> FALSE]
    /\ path' = "ok"
    /\ pc' = "close"
    /\ UNCHANGED <<cacheVars, lang, maxResults, searchResults, results, input,
                   selected, anim, animIdx, doneClosed, wg, out, exitCode, fresh, ops>>

\* close(done)
CloseDone ==
    /\ pc = "close"
    /\ doneClosed' = TRUE
    /\ ops' = [ops EXCEPT !.closes = @ + 1]
    /\ pc' = "wait"
    /\ UNCHANGED <<cacheVars, lang, maxResults, searchResults, results, input,
                   selected, path, ret, extract, anim, animIdx, wg, out, exitCode,
                   fresh, httpCalls>>

WaitReturns_NoJoin == TRUE

\* wg.Wait() returns
WaitReturns == wg = 0

AfterJoin_AlwaysStore(p) == "store"

\* after the join the hit path and the error paths return; only the path of
\* a fetch that succeeded goes on to setCachedEntry
AfterJoin(p) == IF p = "ok" THEN "store" ELSE "return"

\* wg.Wait(); fmt.Print("\r")
WaitAndClear ==
    /\ pc = "wait"
    /\ WaitReturns
    /\ out' = Append(out, [kind |-> "cr"])
    /\ ops' = [ops EXCEPT !.waits = @ + 1]
    /\ pc' = AfterJoin(path)
    /\ UNCHANGED <<cacheVars, lang, maxResults, searchResults, results, input,
                   selected, path, ret, extract, anim, animIdx, doneClosed, wg,
                   exitCode, fresh, httpCalls>>

\* setCachedEntry(lang, title, summary, url)
StoreEntry ==
    /\ pc = "store"
    /\ disk' = setCachedEntry(disk, now, lang, selected, ret.summary, ret.url)
    /\ pc' = "return"
    /\ ops' = [ops EXCEPT !.sets = @ + 1, !.loads = @ + 1, !.saves = @ + 1]
    /\ UNCHANGED <<now, call, stored, saved, inv, lang, maxResults, searchResults,
                   results, input, selected, path, ret, extract, anim, animIdx,
                   doneClosed, wg, out, exitCode, fresh, httpCalls>>

\* getWikipediaSummary returns to main, which prints the error and exits
\* with 1, or prints the summary and the URL and ends
ReturnToMain ==
    /\ pc = "return"
    /\ \/ /\ path \in {"hit", "ok"}
          /\ out' = Append(out, [kind |-> "summary", summary |-> ret.summary,
                                 url |-> ret.url, cached |-> ret.cached])
          /\ Exit(0)
       \/ /\ path \notin {"hit", "ok"}
          /\ out' = Append(out, [kind |-> "error"])
          /\ Exit(1)
    /\ fresh' = IF path = "ok"
                THEN [fresh EXCEPT ![CacheKey(lang, selected)] =
                         [set |-> TRUE, summary |-> ret.summary, url |-> ret.url,
                          at |-> now]]
                ELSE fresh
    /\ UNCHANGED <<cacheVars, lang, maxResults, searchResults, results, input,
                   selected, path, ret, extract, animIdx, doneClosed, wg, httpCalls, ops>>

DoneReady_Never == FALSE

\* case <-done: a receive from a closed channel is ready, from an open one
\* on which nothing is sent it is not
DoneReady == doneClosed

\* showLoadingAnimation's select: done is closed, or the default case
AnimSelect ==
    /\ Running
    /\ anim = "select"
    /\ \/ /\ DoneReady
          /\ anim' = "returned"
       \/ /\ ~DoneReady
          /\ Frames < MaxFrames
          /\ anim' = "frame"
    /\ UNCHANGED <<cacheVars, pc, lang, maxResults, searchResults, results, input,
                   selected, path, ret, extract, animIdx, doneClosed, wg, out,
                   exitCode, fresh, httpCalls, ops>>

\* the default case: a frame is printed, i advances, the goroutine sleeps
AnimFrame ==
    /\ Running
    /\ anim = "frame"
    /\ out' = Append(out, [kind |-> "frame", glyph |-> animIdx])
    /\ animIdx' = (animIdx + 1) % AnimationGlyphs
    /\ anim' = "select"
    /\ UNCHANGED <<cacheVars, pc, lang, maxResults, searchResults, results, input,
                   selected, path, ret, extract, doneClosed, wg, exitCode, fresh,
                   httpCalls, ops>>

\* defer wg.Done()
AnimDone ==
    /\ Running
    /\ anim = "returned"
    /\ wg' = wg - 1
    /\ anim' = "exited"
    /\ UNCHANGED <<cacheVars, pc, lang, maxResults, searchResults, results, input,
                   selected, path, ret, extract, animIdx, doneClosed, out, exitCode,
                   fresh, httpCalls, ops>>

\* time passes between two invocations or while the request is under way
TickMain ==
    /\ pc \in {"idle", "exited", "http"}
    /\ now + TickHours <= MaxTime
    /\ now' = now + TickHours
    /\ UNCHANGED <<disk, call, stored, saved, inv, mainVars>>

---------------------------------------------------------------------------
(* The program run again and again against one cache file.                 *)

\* what the summary endpoint may hold for a title
Pages(t) ==
    IF t = Str("B") THEN {Rep("a", 5), Rep("a", 1200)}
    ELSE IF t = Str("T")
    THEN {Rep("ae", 600),
          Concat(Rep("a", SummaryKeep - 1), Concat(Rep("ae", 1), Rep("a", 3)))}
    ELSE {Rep("a", SummaryMax)}

PageUrl(t) == Concat(Str("/"), t)

FetchErrors == {"transport-error", "read-error", "decode-error"}

\* the sequences of distinct elements of S of length at most n
Lists(S, n) ==
    {s \in UNION {[1..k -> S] : k \in 0..n} :
        \A i, j \in 1..Len(s) : i # j => s[i] # s[j]}

Init ==
    /\ disk \in {NoFile, Garbage}
    /\ now = 0
    /\ call = NoCall
    /\ stored = Unset
    /\ saved = Unset
    /\ MainIdle

Pipeline ==
    \/ SearchFails
    \/ SearchMalformed
    \/ ChooseList
    \/ StartAnimation
    \/ CacheLookup
    \/ \E k \in FetchErrors : FetchFails(k)
    \/ FetchMalformed
    \/ PanicExit
    \/ CloseDone
    \/ WaitAndClear
    \/ StoreEntry
    \/ ReturnToMain
    \/ AnimSelect
    \/ AnimFrame
    \/ AnimDone

\* the steps of an invocation
Invocation ==
    \/ \E l \in Langs : Start(l, DefaultMax)
    \/ \E titles \in Lists(Titles, Cardinality(Titles)) : SearchOk(titles)
    \/ \E line \in {<<"q">>, <<"1">>, <<"2">>, <<"x">>} : ChooseRead(line)
    \/ \E e \in Pages(selected) : FetchOk(e, PageUrl(selected))
    \/ Pipeline

Next ==
    \/ Invocation
    \/ TickMain

Spec == Init /\ [][Next]_vars

\* invocations under fair scheduling, the clock standing still: the
\* goroutine and the foreground are each given their next step, cache I/O
\* returns; nothing is assumed of the HTTP request
SpecLive ==
    /\ Init
    /\ [][Invocation]_vars
    /\ WF_vars(AnimSelect)
    /\ WF_vars(AnimFrame)
    /\ WF_vars(AnimDone)
    /\ WF_vars(StartAnimation)
    /\ WF_vars(CacheLookup)
    /\ WF_vars(CloseDone)
    /\ WF_vars(WaitAndClear)
    /\ WF_vars(StoreEntry)
    /\ WF_vars(PanicExit)

---------------------------------------------------------------------------
(* The same program started on a cache file that cannot be read, parsed or *)
(* written.                                                                *)

\* an entry written at time 0 for the title B
SomeTable ==
    [k \in {CacheKey(De, Str("B"))} |->
        CacheEntry(Rep("a", 5), PageUrl(Str("B")), 0)]

\* the same entry with a number where the summary belongs: the string field
\* stays empty, the other fields are decoded
SomeTableDecoded ==
    [k \in {CacheKey(De, Str("B"))} |->
        CacheEntry(Empty, PageUrl(Str("B")), 0)]

InitFaulty ==
    /\ disk \in {NoFile, Garbage, Unreadable, ReadOnly(SomeTable),
                 Mistyped(SomeTableDecoded)}
    /\ now = 0
    /\ call = NoCall
    /\ stored = Unset
    /\ saved = Unset
    /\ MainIdle

SpecFaulty == InitFaulty /\ [][Next]_vars

---------------------------------------------------------------------------
(* Two invocations of the program that are inside setCachedEntry at the    *)
(* same time, on one cache file.  loadCache and saveCache are the steps.   *)

\* invocation p: cache := loadCache(); cache[key] = CacheEntry{...}
SetLoad(p, l, t, s, u) ==
    /\ inv[p].pc = "idle"
    /\ disk' = createEmptyCacheFileIfNotExists(disk)
    /\ inv' = [inv EXCEPT ![p] =
                  [pc |-> "loaded", key |-> CacheKey(l, t),
                   table |-> WithEntry(loadCache(disk), CacheKey(l, t),
                                       CacheEntry(s, u, now))]]
    /\ UNCHANGED <<now, call, stored, saved, mainVars>>

\* invocation p: saveCache(cache)
SetSave(p) ==
    /\ inv[p].pc = "loaded"
    /\ disk' = saveCache(disk, inv[p].table)
    /\ saved' = [set |-> TRUE, table |-> inv[p].table]
    /\ inv' = [inv EXCEPT ![p].pc = "done"]
    /\ UNCHANGED <<now, call, stored, mainVars>>

NextTwo ==
    \/ \E p \in Invocations, l \in Langs, t \in Titles, s \in Summaries, u \in Urls :
          SetLoad(p, l, t, s, u)
    \/ \E p \in Invocations : SetSave(p)

SpecTwo == Init /\ [][NextTwo]_vars

---------------------------------------------------------------------------
(* main up to the return of chooseResult, with every list of candidates,   *)
(* every cap and a range of lines typed at the prompt.                     *)

\* candidates a search returns at most
MaxCand == 3

\* the largest -max
MaxCap == 3

\* the largest number typed
MaxIndex == 4

\* the decimal numeral of k
RECURSIVE Numeral(_)
Numeral(k) ==
    LET d == <<"0", "1", "2", "3", "4", "5", "6", "7", "8", "9">>[(k % 10) + 1]
    IN  IF k < 10 THEN <<d>> ELSE Numeral(k \div 10) \o <<d>>

\* lines typed at the prompt: something, a number or nothing, something
Lines ==
    {pre \o num \o suf :
        pre \in {<<>>, <<" ">>, <<"+">>, <<"-">>, <<"q">>},
        num \in {<<>>} \cup {Numeral(k) : k \in 0..MaxIndex} \cup {Numeral(12)},
        suf \in {<<>>, <<" ">>, <<"x">>, <<"_">>}}

NextChoose ==
    \/ \E l \in Langs, m \in (0 - 1)..MaxCap : Start(l, m)
    \/ SearchFails
    \/ SearchMalformed
    \/ \E titles \in Lists(AllTitles, MaxCand) : SearchOk(titles)
    \/ ChooseList
    \/ \E line \in Lines : ChooseRead(line)

SpecChoose == Init /\ [][NextChoose]_vars

---------------------------------------------------------------------------
(* Claims about the cache functions, checked under SpecCache.              *)

\* C1: setCachedEntry(lang, title, summary, url) followed, less than 24
\* hours later and with no other store in between, by getCachedEntry(lang,
\* title) returns exactly that summary and that URL with found = TRUE.
C1_StoreThenLookup ==
    ( /\ call.op = "get"
      /\ stored.set
      /\ call.lang = stored.lang
      /\ call.title = stored.title
      /\ call.at - stored.at < cacheDuration )
    => call.res = Lookup(stored.summary, stored.url, TRUE)

\* C2: getCachedEntry reports found exactly when the persisted table holds
\* an entry for the key whose age is strictly less than 24 hours; otherwise
\* it returns the empty summary, the empty URL and found = FALSE, and an
\* entry aged 24 hours or more is still in the persisted table afterwards.
C2_FoundIffYoungerThanTTL ==
    call.op = "get" =>
        LET key == CacheKey(call.lang, call.title)
            present == disk.kind = "json" /\ key \in DOMAIN disk.obj
        IN  /\ call.res.found <=>
                 (present /\ call.at - disk.obj[key].timestamp < cacheDuration)
            /\ ~call.res.found =>
                 (call.res.summary = Empty /\ call.res.url = Empty)

\* C2's case: a lookup of an entry aged exactly 24 hours reported absent
\* while the entry is in the file
C2_Witness_ExpiredStillOnDisk ==
    /\ call.op = "get"
    /\ disk.kind = "json"
    /\ CacheKey(call.lang, call.title) \in DOMAIN disk.obj
    /\ call.at - disk.obj[CacheKey(call.lang, call.title)].timestamp = cacheDuration
    /\ ~call.res.found

\* C3: saveCache(T) followed by loadCache() returns T: the same keys and,
\* for each key, the same summary, URL and timestamp.
C3_SaveLoadRoundTrip ==
    (call.op = "load" /\ saved.set) => call.table = saved.table

---------------------------------------------------------------------------
(* Claims about getWikipediaSummary and the animation, checked under Spec. *)

\* C4: after a call that succeeded with cached = FALSE, a call for the same
\* (lang, title) less than 24 hours later returns cached = TRUE with the
\* same summary and URL and makes no summary request; a request is made
\* only after a miss, and cached = TRUE is returned only on a hit.
C4_SecondCallServedFromCache ==
    LET key == CacheKey(lang, selected)
    IN  /\ ( /\ pc \in {"http", "close", "wait", "store", "return", "panic"}
             /\ fresh[key].set
             /\ now - fresh[key].at < cacheDuration )
           => ( /\ path = "hit"
                /\ ret = [summary |-> fresh[key].summary, url |-> fresh[key].url,
                          cached |-> TRUE]
                /\ httpCalls = 0 )
        /\ httpCalls > 0 => path # "hit"
        /\ ret.cached => path = "hit"

\* C5: once close(done) and wg.Wait() have returned, the animation goroutine
\* has left its loop: no frame is printed after the "\r" that follows
\* wg.Wait(), on the hit path and on the miss path.
C5_NoFrameAfterJoin ==
    /\ \A i, j \in 1..Len(out) :
          (i < j /\ out[i].kind = "cr") => out[j].kind # "frame"
    /\ pc \in {"store", "return"} => anim = "exited"
    /\ (pc = "exited" /\ path \in {"hit", "ok"} \cup FetchErrors) => anim = "exited"

\* C5's case: a cache hit whose wg.Wait() returned after frames were printed
C5_Witness_HitAfterFrames ==
    /\ pc = "return"
    /\ path = "hit"
    /\ Frames > 0
    /\ out[Len(out)].kind = "cr"

\* C6: on every way getWikipediaSummary ends after it started the goroutine
\* (hit, transport error, read error, decode error, a decoded response
\* without the expected fields, success), done is closed and the goroutine
\* has terminated before control leaves the function.
C6_StoppedOnEveryExit ==
    pc \in {"return", "panic"} => (doneClosed /\ anim = "exited")

\* C7: a response that decodes but lacks an expected field makes
\* searchWikipedia or getWikipediaSummary return an error, which main
\* reports before it exits with code 1; the process never panics.
C7_MalformedIsReportedError ==
    path \in {"malformed", "search-malformed"} =>
        (pc # "panic" /\ (pc = "exited" => exitCode = 1))

\* C8: for an extract longer than 1000 characters the summary returned and
\* the summary stored are its first 997 characters followed by "...", and
\* for an extract of 1000 characters or fewer both are the extract.
C8_TruncatedTo1000Characters ==
    (path = "ok" /\ pc \in {"close", "wait", "store", "return", "exited"}) =>
        LET want == IF RuneLen(extract) > 1000
                    THEN Concat(RunePrefix(extract, 997), Rep(".", 3))
                    ELSE extract
            key == CacheKey(lang, selected)
        IN  /\ ret.summary = want
            /\ pc \in {"return", "exited"} =>
                  (disk.kind = "json" /\ key \in DOMAIN disk.obj
                   /\ disk.obj[key].summary = want)

---------------------------------------------------------------------------
(* Claims about chooseResult, checked under SpecChoose.                    *)

Min(a, b) == IF a < b THEN a ELSE b

\* a line that is a decimal numeral and nothing else
IsNumeral(line) == line # <<>> /\ \A i \in 1..Len(line) : IsDigit(line[i])

\* a line that is a decimal numeral, with or without a plus sign before it
IsIndexLine(line) ==
    IsNumeral(IF line # <<>> /\ line[1] = "+" THEN Tail(line) ELSE line)

IndexValue(line) ==
    Decimal(IF line # <<>> /\ line[1] = "+" THEN Tail(line) ELSE line)

ListedItems == SelectSeq(out, LAMBDA e : e.kind = "item")

\* C9: with n >= 2 candidates and a cap m >= 1, chooseResult lists the
\* first min(n, m) candidates in their order, numbered from 1; it returns
\* the candidate at position k only when the line entered is an index k
\* with 1 <= k <= min(n, m); an index above min(n, m) is rejected and the
\* prompt repeated, also when it is at most n.
C9_ChoiceWithinDisplayed ==
    LET n == Len(searchResults)
        shown == Min(n, maxResults)
    IN  (n >= 2 /\ maxResults >= 1 /\ pc # "chooseResult") =>
            /\ ListedItems = [i \in 1..shown |->
                                 [kind |-> "item", number |-> i,
                                  title |-> searchResults[i]]]
            /\ pc = "summary" =>
                  ( /\ IsIndexLine(input)
                    /\ IndexValue(input) \in 1..shown
                    /\ selected = searchResults[IndexValue(input)] )
            /\ (IsIndexLine(input) /\ IndexValue(input) > shown) => pc = "prompt"

\* C10: chooseResult's loop ends only on the line "q" (exit code 0 at once,
\* before any summary request or cache access) or on a line that is a valid
\* index into the displayed list, which returns that title; every other
\* line leaves the selection open and the prompt repeated, and no line
\* makes the process exit with an error.
C10_OnlyQuitOrIndexEndsLoop ==
    (Len(searchResults) >= 2 /\ maxResults >= 0 /\ pc # "chooseResult") =>
        /\ pc = "exited" =>
              (input = <<"q">> /\ exitCode = 0 /\ httpCalls = 0 /\ anim = "none")
        /\ input = <<"q">> => pc = "exited"
        /\ pc = "summary" =>
              ( /\ IsIndexLine(input)
                /\ IndexValue(input) \in 1..Len(results)
                /\ selected = results[IndexValue(input)] )
        /\ pc \in {"prompt", "summary", "exited"}

---------------------------------------------------------------------------
(* Claims about main, checked under Spec.                                  *)

\* C11: when the search returns exactly one candidate, it is the selected
\* title, nothing is listed, no line is read, and main goes on to
\* getWikipediaSummary for it.
C11_SingleCandidateNeedsNoInput ==
    Len(searchResults) = 1 =>
        /\ selected = searchResults[1]
        /\ pc \notin {"search", "chooseResult", "prompt"}
        /\ ListedItems = <<>>
        /\ results = <<>>
        /\ input = <<>>
        /\ pc # "summary" => ops.starts = 1

\* C11's case: getWikipediaSummary has looked the only candidate up
C11_Witness_SingleCandidateLookedUp ==
    /\ Len(searchResults) = 1
    /\ pc \in {"http", "close"}
    /\ selected = searchResults[1]

\* C12: when the search returns no candidate, main reports it and exits
\* with code 1; from its start to its exit the cache file is neither read
\* nor written, no animation goroutine is started and no summary request
\* is made.
C12_NoResultsTouchesNothing ==
    ( /\ searchResults = <<>>
      /\ pc \notin {"idle", "search"}
      /\ path \notin {"search-error", "search-malformed"} )
    => /\ pc = "exited"
       /\ exitCode = 1
       /\ out = <<[kind |-> "no-results"]>>
       /\ ops.loads = 0 /\ ops.saves = 0 /\ ops.sets = 0
       /\ disk = ops.atStart
       /\ ops.starts = 0 /\ anim = "none"
       /\ httpCalls = 0

\* C12's case: no candidate found while the cache file holds entries
C12_Witness_NoResultsWithFilledCache ==
    /\ path = "no-results"
    /\ pc = "exited"
    /\ disk.kind = "json"
    /\ DOMAIN disk.obj # {}

---------------------------------------------------------------------------
(* Claims about a failing cache file, checked under SpecFaulty.            *)

\* C13: when reading or parsing the cache file fails, loadCache returns an
\* empty table, getCachedEntry reports a miss, and getWikipediaSummary goes
\* on to the request and returns its result with a nil error; a failure to
\* write the file does not turn a fetch that succeeded into an error.
C13_CacheFailuresAreSoft ==
    LET f == ops.atCall
    IN  /\ (ops.starts = 1 /\ (ReadFails(f) \/ UnmarshalFails(f))) =>
              /\ loadCache(f) = EmptyCache
              /\ pc # "lookup" => path # "hit"
        /\ (path = "ok" /\ pc \in {"return", "exited"}) =>
              /\ ret = [summary |-> Truncate(extract), url |-> PageUrl(selected),
                        cached |-> FALSE]
              /\ pc = "exited" => exitCode = 0

---------------------------------------------------------------------------
(* Claims about the cache file's content, checked under SpecKeys,          *)
(* SpecCache and SpecTwo.                                                  *)

\* C14: the keys of two (language, title) pairs are equal only if the
\* languages are equal and the titles are equal, case-sensitively, so a
\* lookup never returns an entry that was stored for another pair, also
\* when a language or a title contains ":".
C14_KeysInjective ==
    /\ ( /\ call.op = "get"
         /\ stored.set
         /\ CacheKey(call.lang, call.title) = CacheKey(stored.lang, stored.title) )
       => (call.lang = stored.lang /\ call.title = stored.title)
    /\ (call.op = "get" /\ call.res.found)
       => call.res.url = PairUrl(call.lang, call.title)

\* C15: getCachedEntry leaves the persisted table as it was, whether the
\* lookup hit, missed or found an expired entry; and an expired entry stays
\* in the table, unchanged, through every step that is neither a
\* setCachedEntry for its key nor a saveCache of another table.
C15_LookupKeepsTable ==
    [][ LET old == Unmarshal(disk)
            new == Unmarshal(disk')
        IN  /\ call'.op = "get" => new = old
            /\ \A k \in DOMAIN old :
                  ( /\ ~IsFresh(old[k], now)
                    /\ ~(call'.op = "set" /\ CacheKey(call'.lang, call'.title) = k)
                    /\ call'.op # "save" )
                  => (k \in DOMAIN new /\ new[k] = old[k]) ]_vars

\* C15's case: a lookup found an entry older than 24 hours, reported a miss
\* and the entry is in the file
C15_Witness_ExpiredEntryKept ==
    /\ call.op = "get"
    /\ ~call.res.found
    /\ disk.kind = "json"
    /\ CacheKey(call.lang, call.title) \in DOMAIN disk.obj
    /\ call.at - disk.obj[CacheKey(call.lang, call.title)].timestamp > cacheDuration

\* C16: setCachedEntry(lang, title, summary, url) leaves the persisted
\* table as it was except at the key of (lang, title), whose entry becomes
\* exactly {summary, url, timestamp = now}, replacing any entry the key
\* had.
C16_StoreChangesOneKey ==
    [][ \A l \in Langs, t \in Titles, s \in Summaries, u \in Urls :
            CallSetCachedEntry(l, t, s, u) =>
                LET old == Unmarshal(disk)
                    new == Unmarshal(disk')
                    key == CacheKey(l, t)
                IN  /\ DOMAIN new = DOMAIN old \cup {key}
                    /\ new[key] = CacheEntry(s, u, now)
                    /\ \A k \in DOMAIN old \ {key} : new[k] = old[k] ]_vars

\* C18: when two invocations interleave the load and the save of their
\* setCachedEntry calls, the table persisted is the table written by the
\* save that ran last; the entry stored by the other invocation can be
\* missing from it.
C18_LastWriterWins ==
    saved.set => disk = File("json", Marshal(saved.table))

\* C18's case: both invocations have finished and the entry the first one
\* stored is not in the file
C18_Witness_LostUpdate ==
    /\ \A p \in Invocations : inv[p].pc = "done"
    /\ inv[1].key # inv[2].key
    /\ inv[1].key \notin DOMAIN Unmarshal(disk)
    /\ inv[2].key \in DOMAIN Unmarshal(disk)

---------------------------------------------------------------------------
(* Claims about getWikipediaSummary's goroutine and its store, checked     *)
(* under Spec and SpecLive.                                                *)

\* C17: a call of getWikipediaSummary starts one animation goroutine and
\* closes done exactly once on every path, never a second time, and
\* reaches wg.Wait() once, after that close.
C17_StartedAndStoppedOnce ==
    /\ ops.starts <= 1 /\ ops.closes <= 1 /\ ops.waits <= 1
    /\ ops.waits = 1 => ops.closes = 1
    /\ (pc \in {"return", "panic"} \/ (pc = "exited" /\ ops.starts > 0)) =>
          (ops.starts = 1 /\ ops.closes = 1 /\ ops.waits = 1)

\* C19: when getWikipediaSummary returns an error (transport, read or
\* decode error), setCachedEntry was not called and the persisted table
\* has the entries it had before the call; an entry is written only after
\* a fetch that succeeded and after the goroutine was stopped and joined.
C19_NoStoreOnError ==
    /\ path \in FetchErrors =>
          /\ ops.sets = 0 /\ ops.saves = 0
          /\ Unmarshal(disk) = Unmarshal(ops.atCall)
    /\ Unmarshal(disk) # Unmarshal(ops.atCall) => ops.sets > 0
    /\ ops.sets > 0 =>
          /\ path = "ok"
          /\ ops.closes = 1 /\ ops.waits = 1
          /\ anim = "exited"

\* C19's case: the request failed, main has exited with 1, and the file
\* holds the entries an earlier invocation wrote
C19_Witness_ErrorKeepsEntries ==
    /\ path \in FetchErrors
    /\ pc = "exited"
    /\ exitCode = 1
    /\ DOMAIN Unmarshal(disk) # {}

\* C20: under fair scheduling, once done is closed the goroutine returns:
\* its select never takes the default case again, so it prints at most the
\* frame it is rendering; wg.Wait() does not block forever, and the
\* function comes to its return whenever it is not waiting for the HTTP
\* request (a response without the expected fields makes it leave by a
\* panic, which ends the process: it does not hang either).
C20_JoinTerminates ==
    /\ [][~(doneClosed /\ anim = "select" /\ anim' = "frame")]_vars
    /\ (doneClosed /\ anim \in {"select", "frame", "returned"}) ~> (anim = "exited")
    /\ (pc = "wait") ~> (pc \in {"store", "return"})
    /\ (pc \in {"lookup", "close", "wait", "store"}) ~> (pc \in {"http", "return"})
    /\ (pc = "panic") ~> (pc = "exited")

\* C20's case: done was closed while the goroutine was rendering a frame,
\* and the foreground is in wg.Wait()
C20_Witness_ClosedDuringFrame ==
    /\ pc = "wait"
    /\ doneClosed
    /\ anim = "frame"

===========================================================================
